---- MODULE Spec2Model ----
(***************************************************************************)
(* Model of the multi-page stitching core of Chaptrix (src/stitcher.py):   *)
(* stitch_images_multi_page (normalise, pack, composite) and               *)
(* save_stitched_images (positional file names).                           *)
(*                                                                         *)
(* An image is the record [width, height] of a PIL image; an entry of      *)
(* image_data is [image, height] where image is the position of the image  *)
(* in the input list (its identity) and height the computed new_height.    *)
(* A page is [width, height, pastes, batch]: the canvas size, the pastes   *)
(* that were made on it (<<entry, y offset, height>>) and the batch it was *)
(* built from.  Paths are sequences of one-character strings (POSIX).      *)
(***************************************************************************)
EXTENDS Integers, Sequences, FiniteSets, TLC

\* ---------------------------------------------------------------- bounds
MaxImages == 3          \* longest input list
MaxPages == 3           \* longest page list handed to save_stitched_images
MaxCallerImages == 2    \* longest input list of the stitch-then-save caller
MaxComics == 2          \* most tracked comics
MaxFiles == 3           \* most files in the input folder

\* -------------------------------------------------- program constants
DefaultTargetWidth == 800      \* stitcher.py:20  target_width=800
DefaultMaxHeight == 12000
DefaultImageWidth == 800     \* DEFAULT_SETTINGS["image_width"]
DefaultImageHeight == 0      \* DEFAULT_SETTINGS["image_height"]
FallbackMaxHeight == 12000   \* main.stitch_images: the bound when the height is not positive      \* stitcher.py:20  max_height=12000

\* ------------------------------------------------------- input domains
\* the sizes of the input images: wide and narrow, short and tall ones, and
\* one with a zero width and one with a zero height
ImageSet == {[width |-> 1, height |-> 1], [width |-> 1, height |-> 2],
             [width |-> 2, height |-> 1], [width |-> 2, height |-> 2],
             [width |-> 0, height |-> 1], [width |-> 1, height |-> 0]}
\* target_width arguments a caller passes (0 stands for None as well: both
\* take the `not target_width` branch); the default is used when omitted
TargetWidthArgs == {-1, 0, 2, 3}
MaxHeightArgs == {-1, 0, 3, 5, DefaultMaxHeight}

SeqsUpTo(S, n) == UNION {[1..k -> S] : k \in 0..n}

VARIABLES
    images,            \* the `images` argument
    width_omitted,     \* TRUE when the call passed no target_width
    width_arg,         \* the value target_width was bound to at the call
    target_width,      \* the target_width parameter / local
    max_height,        \* the max_height parameter
    pc,                \* position inside stitch_images_multi_page
    idx,               \* position of the running for loop
    image_data,        \* list of entries built by the normalising loop
    stitched_images,   \* the result list
    current_images,    \* the running batch
    current_height,    \* the running height
    batches,           \* history: every batch handed to create_single_stitched_image
    failed,            \* history: images whose resize/paste raised
    dropped,           \* history: batches whose canvas could not be created
    raised,            \* history: an exception reached the outer handler (line 99)
    output_path_template, \* save_stitched_images: the template argument
    output_dir,        \* save_stitched_images: os.path.dirname(template)
    ext,               \* save_stitched_images: the extension
    saved_paths,       \* save_stitched_images: result list
    files,             \* file system: paths of the files written
    dirs,              \* file system: directories created by makedirs
    spc,               \* position inside save_stitched_images
    sidx,              \* position of the save loop
    io_failed,         \* history: makedirs or a save raised
    attempts,          \* history: the img.save calls made, in order
    fpc,               \* position inside stitch_folder_multi_page
    folder_exists,     \* os.path.exists(input_folder)
    listing,           \* os.listdir(input_folder): file names in directory order
    image_files,       \* stitch_folder_multi_page: the list of image file names
    fidx,              \* position of the loading loop
    loaded,            \* history: the file each element of `images` was opened from
    undecodable,       \* history: the files whose Image.open raised
    output_file,       \* stitch_folder_multi_page: the output_file argument
    result,            \* stitch_folder_multi_page: the value returned
    runs,              \* run_multi_page_stitcher: the invocations in progress
    caller,            \* the function of main.py that calls the stitcher
    image_width,       \* settings["image_width"]
    image_height,      \* settings["image_height"]
    wpc,               \* position inside that caller
    stitched_image,    \* main.stitch_images: the value returned
    workflow,          \* main.main_check_loop or unified_workflow.main
    site_enabled,      \* settings['site_adapters'][site]['enabled'], by site
    tracked_comics,    \* the list of tracked comics
    mpc,               \* position inside the check loop
    comic_i,           \* position of the loop over tracked_comics
    total_checked,     \* main_check_loop: comics handed to process_comic
    new_chapters,      \* new_chapters / updates_found
    ppc,               \* position inside process_comic
    comic_index,       \* process_comic: the comic_index argument
    current_chapter,   \* process_comic: the chapter the adapter reported
    n_pages,           \* process_comic: len(stitched_images)
    n_saved,           \* process_comic: len(saved_files)
    at_entry,          \* history: tracked_comics when process_comic was entered
    save_count,        \* history: times the tracked comics were written back
    visits             \* history: the comics visited and how each visit ended

stitchVars == <<images, width_omitted, width_arg, target_width, max_height, pc, idx,
                image_data, stitched_images, current_images, current_height,
                batches, failed, dropped, raised>>
saveVars == <<output_path_template, output_dir, ext, saved_paths, files, dirs,
              spc, sidx, io_failed, attempts>>
folderVars == <<fpc, folder_exists, listing, image_files, fidx, loaded, undecodable,
                output_file, result>>
wrapperVars == <<caller, image_width, image_height, wpc, stitched_image>>
loopVars == <<workflow, site_enabled, tracked_comics, mpc, comic_i, total_checked,
              new_chapters, ppc, comic_index, current_chapter, n_pages, n_saved,
              at_entry, save_count, visits>>
mainVars == <<wrapperVars, loopVars>>
otherVars == <<fpc, folder_exists, listing, image_files, fidx, loaded, undecodable,
               output_file, result, runs, mainVars>>
vars == <<images, width_omitted, width_arg, target_width, max_height, pc, idx,
          image_data, stitched_images, current_images, current_height,
          batches, failed, dropped, raised,
          output_path_template, output_dir, ext, saved_paths, files, dirs,
          spc, sidx, io_failed, attempts,
          fpc, folder_exists, listing, image_files, fidx, loaded, undecodable,
          output_file, result, runs,
          caller, image_width, image_height, wpc, stitched_image,
          workflow, site_enabled, tracked_comics, mpc, comic_i, total_checked,
          new_chapters, ppc, comic_index, current_chapter, n_pages, n_saved,
          at_entry, save_count, visits>>

\* ------------------------------------------------------------ helpers
RECURSIVE SumHeights(_)
SumHeights(s) == IF s = <<>> THEN 0 ELSE s[1].height + SumHeights(Tail(s))

RECURSIVE MaxWidthFrom(_, _)
MaxWidthFrom(imgs, m) ==
    IF imgs = <<>> THEN m
    ELSE MaxWidthFrom(Tail(imgs), IF imgs[1].width > m THEN imgs[1].width ELSE m)

\* faulty variant: the width of the first image instead of the maximum
MaxWidth_First(imgs) == imgs[1].width

\* max(img.width for img in images), images non-empty
MaxWidth(imgs) == MaxWidthFrom(Tail(imgs), imgs[1].width)

\* stitcher.py:47  `not target_width or target_width <= 0`
WantsAutoWidth(tw) == tw = 0 \/ tw <= 0

\* stitcher.py:47-48
EffectiveWidth(tw, imgs) == IF WantsAutoWidth(tw) THEN MaxWidth(imgs) ELSE tw

\* stitcher.py:54-55  int(target_width * (img.height / img.width)); for the
\* non-negative operands that reach it, int() truncation is the floor, and
\* on the model's domains the double-precision product has the same floor
\* as the exact quotient.
new_height(tw, img) == (tw * img.height) \div img.width

\* stitcher.py:54  a zero width raises ZeroDivisionError
DivisionRaises(img) == img.width = 0

\* faulty variant: the entry's own height is left out of the overflow test
Overflows_IgnoresEntry(cur_images, cur_height, h, mh) ==
    cur_height > mh /\ cur_images # <<>>

\* faulty variant: the overflow test fires on an empty running batch too
Overflows_NoEmptyCheck(cur_images, cur_height, h, mh) ==
    cur_height + h > mh

\* faulty variant: a batch that would reach max_height exactly is closed
Overflows_AtBound(cur_images, cur_height, h, mh) ==
    cur_height + h >= mh /\ cur_images # <<>>

\* stitcher.py:68  the overflow test
Overflows(cur_images, cur_height, h, mh) ==
    cur_height + h > mh /\ cur_images # <<>>

\* faulty variant: the entry that triggers the overflow is not carried over
NextBatch_DropsEntry(cur_images, entry, overflow) ==
    IF overflow THEN <<>> ELSE Append(cur_images, entry)

\* stitcher.py:76-80  the running batch after the entry was handled
NextBatch(cur_images, entry, overflow) ==
    IF overflow THEN <<entry>> ELSE Append(cur_images, entry)

\* faulty variant: the running height is not reset when a batch is closed
NextHeight_KeepsSum(cur_height, entry, overflow) == cur_height + entry.height

\* stitcher.py:77,81  the running height after the entry was handled
NextHeight(cur_height, entry, overflow) ==
    IF overflow THEN entry.height ELSE cur_height + entry.height

\* the value None returned by create_single_stitched_image (line 141)
NonePage == [width |-> -1, height |-> -1, pastes |-> <<>>, batch |-> <<>>]

\* stitcher.py:122-135  the paste loop: position i of the batch, offset y.
\* `fails` holds the positions whose resize or paste raises; the handler
\* continues with the next entry and leaves y_offset as it is.
RECURSIVE PasteLoop(_, _, _, _, _)
PasteLoop(batch, fails, i, y, acc) ==
    IF i > Len(batch) THEN acc
    ELSE IF i \in fails
         THEN PasteLoop(batch, fails, i + 1, y, acc)
         ELSE PasteLoop(batch, fails, i + 1, y + batch[i].height,
                        Append(acc, [image |-> batch[i].image, y |-> y,
                                     height |-> batch[i].height]))

\* faulty variant: y_offset is never advanced, every entry is pasted at 0
create_single_stitched_image_Overlap(batch, tw, fails, canvas_fails) ==
    IF canvas_fails THEN NonePage
    ELSE [width |-> tw, height |-> SumHeights(batch),
          pastes |-> [k \in 1..Len(batch) |->
                         [image |-> batch[k].image, y |-> 0,
                          height |-> batch[k].height]],
          batch |-> batch]

\* stitcher.py:104-141  create_single_stitched_image; canvas_fails: Image.new
\* raised (out of memory, size limit), the outer handler returns None
create_single_stitched_image(batch, tw, fails, canvas_fails) ==
    IF canvas_fails THEN NonePage
    ELSE [width |-> tw, height |-> SumHeights(batch),
          pastes |-> PasteLoop(batch, fails, 1, 0, <<>>), batch |-> batch]

\* stitcher.py:72-73, 87-88  `if stitched_img: stitched_images.append(...)`
AppendPage(pages, page) == IF page # NonePage THEN Append(pages, page) ELSE pages

FailedImages(batch, fails) == {batch[i].image : i \in fails}

\* ------------------------------------------------ paths (posixpath)
\* position of the last occurrence of c in p, 0 when there is none
RECURSIVE RFind(_, _, _)
RFind(p, c, i) == IF i = 0 THEN 0 ELSE IF p[i] = c THEN i ELSE RFind(p, c, i - 1)

RECURSIVE RStripSlash(_)
RStripSlash(p) ==
    IF p # <<>> /\ p[Len(p)] = "/" THEN RStripSlash(SubSeq(p, 1, Len(p) - 1)) ELSE p

\* os.path.dirname (stitcher.py:166): the head up to the last slash, its
\* trailing slashes removed unless it consists of slashes only
Dirname(p) ==
    LET head == SubSeq(p, 1, RFind(p, "/", Len(p)))
    IN  IF RStripSlash(head) = <<>> THEN head ELSE RStripSlash(head)

\* os.path.splitext(...)[1] (stitcher.py:170): from the last dot of the
\* last component, unless only dots precede it in that component
Splitext(p) ==
    LET sepIndex == RFind(p, "/", Len(p))
        dotIndex == RFind(p, ".", Len(p))
    IN  IF dotIndex > sepIndex
           /\ \E k \in (sepIndex + 1)..(dotIndex - 1) : p[k] # "."
        THEN SubSeq(p, dotIndex, Len(p))
        ELSE <<>>

\* os.path.join(a, b) (stitcher.py:174, 181)
Join(a, b) ==
    IF b # <<>> /\ b[1] = "/" THEN b
    ELSE IF a = <<>> \/ a[Len(a)] = "/" THEN a \o b
    ELSE a \o <<"/">> \o b

Digit(d) == <<"0", "1", "2", "3", "4", "5", "6", "7", "8", "9">>[d + 1]

\* str(n) for n >= 0
RECURSIVE IntToStr(_)
IntToStr(n) == IF n < 10 THEN <<Digit(n)>> ELSE IntToStr(n \div 10) \o <<Digit(n % 10)>>

\* faulty variant: file names count from 0
OutputName_ZeroBased(i, e) == IntToStr(i) \o e

\* stitcher.py:181  f"{i+1}{ext}", i the 0-based position of the page
OutputName(i, e) == IntToStr(i + 1) \o e

\* stitcher.py:174  f"1{ext}"
SingleName(e) == <<"1">> \o e

\* os.makedirs(output_dir, exist_ok=True) raises for the empty path
MakedirsRaises(d) == d = <<>>

\* the file system after img.save(path, ...) succeeded
WriteFile(fs, path, page) == {f \in fs : f[1] # path} \cup {<<path, page>>}

\* faulty variant: img.save stands outside the try block
TrySites_SaveUnguarded == {"division", "makedirs", "listdir", "sort", "open"}

\* the statements that can raise and stand inside a try block whose handler
\* logs and returns: stitcher.py:54 (try 38-99), 167 and 175/182 (try 164-188),
\* 213 and 222 (try 211-248, 221-225), 234 (try 232-236)
TrySites == {"division", "makedirs", "save", "listdir", "sort", "open"}

\* where a function is after one of its statements raised: its handler made
\* it return, or the exception left the function
AfterRaise(site) == IF site \in TrySites THEN "returned" ELSE "propagated"

\* faulty variant: the path is recorded before the page is written
PathsAfterSave_Always(paths, path, ok) == Append(paths, path)

\* stitcher.py:175-177, 182-184  saved_paths after img.save returned (ok) or raised
PathsAfterSave(paths, path, ok) == IF ok THEN Append(paths, path) ELSE paths

\* ------------------------------------- inputs of save_stitched_images
TemplateDirs == {<<"d">>, <<"p", "/", "q">>}
TemplateNames == {<<"c">>, <<"a", ".", "b">>}
TemplateExts == {<<"j">>, <<"p">>}
MkTemplate(d, n, e) == d \o <<"/">> \o n \o <<".">> \o e
\* dir/name.ext, and a bare file name, a path without extension (the output
\* directory itself, as test_automation.py:251 passes) and a doubled slash
TemplatePaths ==
    {MkTemplate(d, n, e) : d \in TemplateDirs, n \in TemplateNames, e \in TemplateExts}
    \cup {<<"c", ".", "j">>, <<"d", "/", "o">>, <<"d", "/", "/", "c", ".", "j">>}

\* the list handed over holds any images; only their identity matters here
SavePageSet == {[width |-> 1, height |-> h, pastes |-> <<>>, batch |-> <<>>] : h \in 1..2}

\* ------------------------------------------------------ initial state
SaveIdle ==
    /\ output_path_template = <<>>
    /\ output_dir = <<>>
    /\ ext = <<>>
    /\ saved_paths = <<>>
    /\ files = {}
    /\ dirs = {}
    /\ spc = "idle"
    /\ sidx = 0
    /\ io_failed = FALSE
    /\ attempts = <<>>

\* no folder pipeline is running
FolderIdle ==
    /\ fpc = "idle"
    /\ folder_exists = FALSE
    /\ listing = <<>>
    /\ image_files = <<>>
    /\ fidx = 0
    /\ loaded = <<>>
    /\ undecodable = {}
    /\ output_file = <<>>
    /\ result = <<>>

\* no caller of main.py is running
WrapperIdle ==
    /\ caller = "none"
    /\ image_width = 0
    /\ image_height = 0
    /\ wpc = "idle"
    /\ stitched_image = <<>>

\* no check loop is running
LoopIdle ==
    /\ workflow = "none"
    /\ site_enabled = <<>>
    /\ tracked_comics = <<>>
    /\ mpc = "idle"
    /\ comic_i = 0
    /\ total_checked = 0
    /\ new_chapters = 0
    /\ ppc = "idle"
    /\ comic_index = 0
    /\ current_chapter = 0
    /\ n_pages = 0
    /\ n_saved = 0
    /\ at_entry = <<>>
    /\ save_count = 0
    /\ visits = <<>>

MainIdle == WrapperIdle /\ LoopIdle

\* a call stitch_images_multi_page(images[, target_width][, max_height])
\* with at most n images
StitchCall(n) ==
    /\ images \in SeqsUpTo(ImageSet, n)
    /\ width_omitted \in BOOLEAN
    /\ target_width \in (IF width_omitted THEN {DefaultTargetWidth} ELSE TargetWidthArgs)
    /\ width_arg = target_width
    /\ max_height \in MaxHeightArgs
    /\ pc = "call"
    /\ idx = 0
    /\ image_data = <<>>
    /\ stitched_images = <<>>
    /\ current_images = <<>>
    /\ current_height = 0
    /\ batches = <<>>
    /\ failed = {}
    /\ dropped = 0
    /\ raised = FALSE
    /\ SaveIdle
    /\ FolderIdle
    /\ runs = <<>>
    /\ MainIdle

Init == StitchCall(MaxImages)

\* ------------------------------------------ stitch_images_multi_page
\* stitcher.py:34-36  empty input: log and return []
StitchNoImages ==
    /\ pc = "call"
    /\ images = <<>>
    /\ pc' = "returned"
    /\ stitched_images' = <<>>
    /\ UNCHANGED <<images, width_omitted, width_arg, target_width, max_height, idx,
                   image_data, current_images, current_height, batches,
                   failed, dropped, raised>>
    /\ UNCHANGED saveVars
    /\ UNCHANGED otherVars

\* stitcher.py:46-52  the width is fixed, the normalising loop starts
CalcDimensions ==
    /\ pc = "call"
    /\ images # <<>>
    /\ target_width' = EffectiveWidth(target_width, images)
    /\ image_data' = <<>>
    /\ idx' = 1
    /\ pc' = "normalize"
    /\ UNCHANGED <<images, width_omitted, width_arg, max_height, stitched_images,
                   current_images, current_height, batches, failed, dropped,
                   raised>>
    /\ UNCHANGED saveVars
    /\ UNCHANGED otherVars

\* stitcher.py:53-59  one iteration of the normalising loop
NormalizeStep ==
    /\ pc = "normalize"
    /\ idx <= Len(images)
    /\ ~DivisionRaises(images[idx])
    /\ image_data' = Append(image_data,
                            [image |-> idx,
                             height |-> new_height(target_width, images[idx])])
    /\ idx' = idx + 1
    /\ UNCHANGED <<images, width_omitted, width_arg, target_width, max_height, pc,
                   stitched_images, current_images, current_height, batches,
                   failed, dropped, raised>>
    /\ UNCHANGED saveVars
    /\ UNCHANGED otherVars

\* stitcher.py:54 then 99-101  the division raises: the outer handler logs
\* and the call returns []
NormalizeRaises ==
    /\ pc = "normalize"
    /\ idx <= Len(images)
    /\ DivisionRaises(images[idx])
    /\ raised' = TRUE
    /\ stitched_images' = <<>>
    /\ pc' = AfterRaise("division")
    /\ UNCHANGED <<images, width_omitted, width_arg, target_width, max_height, idx,
                   image_data, current_images, current_height, batches,
                   failed, dropped>>
    /\ UNCHANGED saveVars
    /\ UNCHANGED otherVars

\* stitcher.py:61-64  the packing loop starts
StartPacking ==
    /\ pc = "normalize"
    /\ idx > Len(images)
    /\ stitched_images' = <<>>
    /\ current_images' = <<>>
    /\ current_height' = 0
    /\ idx' = 1
    /\ pc' = "pack"
    /\ UNCHANGED <<images, width_omitted, width_arg, target_width, max_height,
                   image_data, batches, failed, dropped, raised>>
    /\ UNCHANGED saveVars
    /\ UNCHANGED otherVars

\* stitcher.py:66-81  one iteration of the packing loop, the call of
\* create_single_stitched_image included
PackStep ==
    /\ pc = "pack"
    /\ idx <= Len(image_data)
    /\ LET entry == image_data[idx]
           overflow == Overflows(current_images, current_height,
                                 entry.height, max_height)
       IN  /\ IF overflow
              THEN \E fails \in SUBSET (1..Len(current_images)),
                      canvas_fails \in BOOLEAN :
                      LET page == create_single_stitched_image(
                                      current_images, target_width, fails,
                                      canvas_fails)
                      IN  /\ stitched_images' = AppendPage(stitched_images, page)
                          /\ batches' = Append(batches, current_images)
                          /\ failed' = IF canvas_fails THEN failed
                                       ELSE failed \cup FailedImages(current_images, fails)
                          /\ dropped' = IF canvas_fails THEN dropped + 1 ELSE dropped
              ELSE UNCHANGED <<stitched_images, batches, failed, dropped>>
           /\ current_images' = NextBatch(current_images, entry, overflow)
           /\ current_height' = NextHeight(current_height, entry, overflow)
    /\ idx' = idx + 1
    /\ UNCHANGED <<images, width_omitted, width_arg, target_width, max_height, pc,
                   image_data, raised>>
    /\ UNCHANGED saveVars
    /\ UNCHANGED otherVars

\* stitcher.py:83-97  the final batch and the return
FinishStitching ==
    /\ pc = "pack"
    /\ idx > Len(image_data)
    /\ IF current_images # <<>>
       THEN \E fails \in SUBSET (1..Len(current_images)),
               canvas_fails \in BOOLEAN :
               LET page == create_single_stitched_image(
                               current_images, target_width, fails, canvas_fails)
               IN  /\ stitched_images' = AppendPage(stitched_images, page)
                   /\ batches' = Append(batches, current_images)
                   /\ failed' = IF canvas_fails THEN failed
                                ELSE failed \cup FailedImages(current_images, fails)
                   /\ dropped' = IF canvas_fails THEN dropped + 1 ELSE dropped
       ELSE UNCHANGED <<stitched_images, batches, failed, dropped>>
    /\ pc' = "returned"
    /\ UNCHANGED <<images, width_omitted, width_arg, target_width, max_height, idx,
                   image_data, current_images, current_height, raised>>
    /\ UNCHANGED saveVars
    /\ UNCHANGED otherVars

Next ==
    \/ StitchNoImages
    \/ CalcDimensions
    \/ NormalizeStep
    \/ NormalizeRaises
    \/ StartPacking
    \/ PackStep
    \/ FinishStitching

Spec == Init /\ [][Next]_vars

\* ---------------------------------- stitch_images_multi_page, real sizes
\* images of the sizes chapters have: a 600x800 page, a very wide and
\* short strip, a small one, and one with a zero width
ScenarioImageSet == {[width |-> 600, height |-> 800], [width |-> 1000, height |-> 1],
                     [width |-> 2, height |-> 1], [width |-> 0, height |-> 1]}
ScenarioCounts == {1, 5}

\* the empty list, and one or five images of one size
ScenarioInputs ==
    {<<>>} \cup {[i \in 1..n |-> img] : img \in ScenarioImageSet, n \in ScenarioCounts}

ScenarioWidthArgs == {0, 3}
ScenarioMaxHeightArgs == {3000, DefaultMaxHeight}

\* a call stitch_images_multi_page(images[, target_width][, max_height])
InitScenario ==
    /\ images \in ScenarioInputs
    /\ width_omitted \in BOOLEAN
    /\ target_width \in (IF width_omitted THEN {DefaultTargetWidth} ELSE ScenarioWidthArgs)
    /\ width_arg = target_width
    /\ max_height \in ScenarioMaxHeightArgs
    /\ pc = "call"
    /\ idx = 0
    /\ image_data = <<>>
    /\ stitched_images = <<>>
    /\ current_images = <<>>
    /\ current_height = 0
    /\ batches = <<>>
    /\ failed = {}
    /\ dropped = 0
    /\ raised = FALSE
    /\ SaveIdle
    /\ FolderIdle
    /\ runs = <<>>
    /\ MainIdle

SpecScenario == InitScenario /\ [][Next]_vars

\* ---------------------------------------------- save_stitched_images
\* a call save_stitched_images(stitched_images, output_path_template)
InitSave ==
    /\ images = <<>>
    /\ width_omitted = FALSE
    /\ target_width = 0
    /\ width_arg = 0
    /\ max_height = DefaultMaxHeight
    /\ pc = "returned"
    /\ idx = 0
    /\ image_data = <<>>
    /\ stitched_images \in SeqsUpTo(SavePageSet, MaxPages)
    /\ current_images = <<>>
    /\ current_height = 0
    /\ batches = <<>>
    /\ failed = {}
    /\ dropped = 0
    /\ raised = FALSE
    /\ output_path_template \in TemplatePaths
    /\ output_dir = <<>>
    /\ ext = <<>>
    /\ saved_paths = <<>>
    /\ files = {}
    /\ dirs = {}
    /\ spc = "call"
    /\ sidx = 0
    /\ io_failed = FALSE
    /\ attempts = <<>>
    /\ FolderIdle
    /\ runs = <<>>
    /\ MainIdle

\* faulty variant: the output directory is created before the list is looked at
SaveNoImages_MakesDir ==
    /\ spc = "call"
    /\ stitched_images = <<>>
    /\ saved_paths' = <<>>
    /\ dirs' = dirs \cup {Dirname(output_path_template)}
    /\ spc' = "returned"
    /\ UNCHANGED <<output_path_template, output_dir, ext, files, sidx,
                   io_failed, attempts>>
    /\ UNCHANGED stitchVars
    /\ UNCHANGED otherVars

\* stitcher.py:158-160  nothing to save: log and return []
SaveNoImages ==
    /\ spc = "call"
    /\ stitched_images = <<>>
    /\ saved_paths' = <<>>
    /\ spc' = "returned"
    /\ UNCHANGED <<output_path_template, output_dir, ext, files, dirs, sidx,
                   io_failed, attempts>>
    /\ UNCHANGED stitchVars
    /\ UNCHANGED otherVars

\* stitcher.py:162-173  directory, extension and the choice of the branch;
\* makedirs may raise (188-190: log, return saved_paths)
SaveOpen ==
    /\ spc = "call"
    /\ stitched_images # <<>>
    /\ saved_paths' = <<>>
    /\ output_dir' = Dirname(output_path_template)
    /\ \E makedirs_fails \in BOOLEAN :
          IF makedirs_fails \/ MakedirsRaises(output_dir')
          THEN /\ io_failed' = TRUE
               /\ spc' = AfterRaise("makedirs")
               /\ UNCHANGED <<ext, dirs, sidx>>
          ELSE /\ dirs' = dirs \cup {output_dir'}
               /\ ext' = Splitext(output_path_template)
               /\ spc' = IF Len(stitched_images) = 1 THEN "single" ELSE "loop"
               /\ sidx' = 0
               /\ UNCHANGED io_failed
    /\ UNCHANGED <<output_path_template, files, attempts>>
    /\ UNCHANGED stitchVars
    /\ UNCHANGED otherVars

\* stitcher.py:173-177, 186  one page: 1<ext>
SaveSingle ==
    /\ spc = "single"
    /\ LET output_path == Join(output_dir, SingleName(ext))
       IN  \E save_fails \in BOOLEAN :
              /\ attempts' = Append(attempts, [page |-> 1, path |-> output_path,
                                               ok |-> ~save_fails])
              /\ saved_paths' = PathsAfterSave(saved_paths, output_path, ~save_fails)
              /\ IF save_fails
                 THEN /\ io_failed' = TRUE
                      /\ spc' = AfterRaise("save")
                      /\ UNCHANGED files
                 ELSE /\ files' = WriteFile(files, output_path, stitched_images[1])
                      /\ spc' = "returned"
                      /\ UNCHANGED io_failed
    /\ UNCHANGED <<output_path_template, output_dir, ext, dirs, sidx>>
    /\ UNCHANGED stitchVars
    /\ UNCHANGED otherVars

\* stitcher.py:180-184  one iteration of the save loop; a save that raises
\* leaves the loop (188-190: log, return saved_paths)
SaveNext ==
    /\ spc = "loop"
    /\ sidx < Len(stitched_images)
    /\ LET output_path == Join(output_dir, OutputName(sidx, ext))
       IN  \E save_fails \in BOOLEAN :
              /\ attempts' = Append(attempts, [page |-> sidx + 1,
                                               path |-> output_path,
                                               ok |-> ~save_fails])
              /\ saved_paths' = PathsAfterSave(saved_paths, output_path, ~save_fails)
              /\ IF save_fails
                 THEN /\ io_failed' = TRUE
                      /\ spc' = AfterRaise("save")
                      /\ UNCHANGED <<files, sidx>>
                 ELSE /\ files' = WriteFile(files, output_path, stitched_images[sidx + 1])
                      /\ sidx' = sidx + 1
                      /\ UNCHANGED <<io_failed, spc>>
    /\ UNCHANGED <<output_path_template, output_dir, ext, dirs>>
    /\ UNCHANGED stitchVars
    /\ UNCHANGED otherVars

\* stitcher.py:186  return saved_paths after the loop
SaveReturn ==
    /\ spc = "loop"
    /\ sidx >= Len(stitched_images)
    /\ spc' = "returned"
    /\ UNCHANGED <<output_path_template, output_dir, ext, saved_paths, files,
                   dirs, sidx, io_failed, attempts>>
    /\ UNCHANGED stitchVars
    /\ UNCHANGED otherVars

NextSave ==
    \/ SaveNoImages
    \/ SaveOpen
    \/ SaveSingle
    \/ SaveNext
    \/ SaveReturn

SpecSave == InitSave /\ [][NextSave]_vars

\* ------------------------------------- a caller: stitch, then save
\* the templates of the callers: the output directory itself
\* (test_automation.py:251) and <dir>/<chapter>.jpg (main.py:1018)
CallerTemplates == {<<"d", "/", "o">>, MkTemplate(<<"d">>, <<"c">>, <<"j">>)}

\* test_automation.py:245-251  the result of stitch_images_multi_page is
\* handed to save_stitched_images whatever it is
CallSave ==
    /\ pc = "returned"
    /\ spc = "idle"
    /\ spc' = "call"
    /\ output_path_template' \in CallerTemplates
    /\ UNCHANGED <<output_dir, ext, saved_paths, files, dirs, sidx, io_failed,
                   attempts>>
    /\ UNCHANGED stitchVars
    /\ UNCHANGED otherVars

InitCaller == StitchCall(MaxCallerImages)

NextCaller ==
    \/ Next
    \/ CallSave
    \/ NextSave

SpecCaller == InitCaller /\ [][NextCaller]_vars

\* ------------------------------------------ stitch_folder_multi_page
\* the files an input folder may hold
FileNames == {<<"1", "0", ".", "p", "n", "g">>,
              <<"2", "a", "1", ".", "j", "p", "e", "g">>,
              <<"3", ".", "P", "N", "G">>,
              <<"7", ".", "j", "p", "g">>,
              <<"9", ".", "t", "x", "t">>,
              <<"b", ".", "w", "e", "b", "p">>}

\* the image Image.open gives for a file that decodes (one of them has a
\* zero width)
FileImage(name) ==
    CASE name = <<"1", "0", ".", "p", "n", "g">> -> [width |-> 1, height |-> 1]
      [] name = <<"2", "a", "1", ".", "j", "p", "e", "g">> -> [width |-> 1, height |-> 2]
      [] name = <<"3", ".", "P", "N", "G">> -> [width |-> 2, height |-> 1]
      [] name = <<"7", ".", "j", "p", "g">> -> [width |-> 0, height |-> 1]
      [] OTHER -> [width |-> 2, height |-> 2]

\* the directory orders os.listdir may give: distinct names
Listings(n) ==
    {l \in SeqsUpTo(FileNames, n) : \A i, j \in 1..Len(l) : i # j => l[i] # l[j]}

\* the characters of the file names in code point order
CodeOrder == <<".", "0", "1", "2", "3", "7", "9", "G", "N", "P",
               "a", "b", "e", "g", "j", "n", "p", "t", "w", "x">>
Ord(c) == CHOOSE i \in 1..Len(CodeOrder) : CodeOrder[i] = c

\* str.lower on one character
LowerChar(c) ==
    CASE c = "G" -> "g" [] c = "N" -> "n" [] c = "P" -> "p" [] OTHER -> c
Lower(name) == [i \in 1..Len(name) |-> LowerChar(name[i])]

EndsWith(name, suffix) ==
    /\ Len(name) >= Len(suffix)
    /\ SubSeq(name, Len(name) - Len(suffix) + 1, Len(name)) = suffix

\* stitcher.py:214  ('.png', '.jpg', '.jpeg', '.webp')
ImageSuffixes == {<<".", "p", "n", "g">>, <<".", "j", "p", "g">>,
                  <<".", "j", "p", "e", "g">>, <<".", "w", "e", "b", "p">>}

\* stitcher.py:213-214  f.lower().endswith(...)
IsImageFile(name) == \E suffix \in ImageSuffixes : EndsWith(Lower(name), suffix)

\* faulty variant: every file of the folder is taken
FilterImageFiles_All(l) == l

\* stitcher.py:213-214  the list comprehension keeps the directory order
FilterImageFiles(l) == SelectSeq(l, IsImageFile)

\* str.isdigit on one character
IsDigit(c) == c \in {"0", "1", "2", "3", "4", "5", "6", "7", "8", "9"}

\* stitcher.py:222  ''.join(filter(str.isdigit, x))
DigitsOf(name) == SelectSeq(name, IsDigit)

DigitValue(c) == CHOOSE d \in 0..9 : Digit(d) = c

\* int(...) of a non-empty digit string
RECURSIVE StrToInt(_)
StrToInt(ds) ==
    IF ds = <<>> THEN 0
    ELSE StrToInt(SubSeq(ds, 1, Len(ds) - 1)) * 10 + DigitValue(ds[Len(ds)])

\* stitcher.py:222  the sort key
NumericKey(name) == StrToInt(DigitsOf(name))

\* faulty variant: a name without digits gets key 0 and nothing is raised
SortKeyRaises_Never(l) == FALSE

\* stitcher.py:222  int('') raises ValueError when a name has no digit
SortKeyRaises(l) == \E i \in 1..Len(l) : DigitsOf(l[i]) = <<>>

\* string comparison a < b
RECURSIVE LexLess(_, _)
LexLess(a, b) ==
    IF b = <<>> THEN FALSE
    ELSE IF a = <<>> THEN TRUE
    ELSE IF a[1] # b[1] THEN Ord(a[1]) < Ord(b[1])
    ELSE LexLess(Tail(a), Tail(b))

\* list.sort is stable: x goes behind every element that is not greater
RECURSIVE InsertNumeric(_, _)
InsertNumeric(sorted, x) ==
    IF sorted = <<>> THEN <<x>>
    ELSE IF NumericKey(x) < NumericKey(sorted[1]) THEN <<x>> \o sorted
    ELSE <<sorted[1]>> \o InsertNumeric(Tail(sorted), x)

RECURSIVE SortNumeric(_)
SortNumeric(l) ==
    IF l = <<>> THEN <<>>
    ELSE InsertNumeric(SortNumeric(SubSeq(l, 1, Len(l) - 1)), l[Len(l)])

RECURSIVE InsertLex(_, _)
InsertLex(sorted, x) ==
    IF sorted = <<>> THEN <<x>>
    ELSE IF LexLess(x, sorted[1]) THEN <<x>> \o sorted
    ELSE <<sorted[1]>> \o InsertLex(Tail(sorted), x)

RECURSIVE SortLex(_)
SortLex(l) ==
    IF l = <<>> THEN <<>>
    ELSE InsertLex(SortLex(SubSeq(l, 1, Len(l) - 1)), l[Len(l)])

\* stitcher.py:220-225  numeric sort, alphabetical when the key raises (the
\* list is untouched by the failed sort)
SortFiles(l) == IF SortKeyRaises(l) THEN SortLex(l) ELSE SortNumeric(l)

\* the output_file arguments: a path with a directory, and a bare file name
FolderTemplates == {MkTemplate(<<"d">>, <<"c">>, <<"j">>), <<"c", ".", "j">>}
FolderWidthArgs == {0, 2}
FolderMaxHeightArgs == {3, DefaultMaxHeight}

\* a call stitch_folder_multi_page(input_folder, output_file, target_width,
\* max_height)
InitFolder ==
    /\ images = <<>>
    /\ width_omitted = FALSE
    /\ target_width \in FolderWidthArgs
    /\ width_arg = target_width
    /\ max_height \in FolderMaxHeightArgs
    /\ pc = "idle"
    /\ idx = 0
    /\ image_data = <<>>
    /\ stitched_images = <<>>
    /\ current_images = <<>>
    /\ current_height = 0
    /\ batches = <<>>
    /\ failed = {}
    /\ dropped = 0
    /\ raised = FALSE
    /\ SaveIdle
    /\ fpc = "call"
    /\ folder_exists \in BOOLEAN
    /\ listing \in (IF folder_exists THEN Listings(MaxFiles) ELSE {<<>>})
    /\ image_files = <<>>
    /\ fidx = 0
    /\ loaded = <<>>
    /\ undecodable = {}
    /\ output_file \in FolderTemplates
    /\ result = <<>>
    /\ runs = <<>>
    /\ MainIdle

\* stitcher.py:207-209  the folder does not exist: log and return []
FolderMissing ==
    /\ fpc = "call"
    /\ ~folder_exists
    /\ result' = <<>>
    /\ fpc' = "returned"
    /\ UNCHANGED <<folder_exists, listing, image_files, fidx, loaded,
                   undecodable, output_file, runs, mainVars>>
    /\ UNCHANGED stitchVars
    /\ UNCHANGED saveVars

\* stitcher.py:211-230  list, filter and sort the files; no image file:
\* log and return []; os.listdir may raise (248-250: log, return [])
FolderList ==
    /\ fpc = "call"
    /\ folder_exists
    /\ \E listdir_fails \in BOOLEAN :
          IF listdir_fails
          THEN /\ fpc' = AfterRaise("listdir")
               /\ result' = <<>>
               /\ UNCHANGED <<image_files, fidx>>
          ELSE /\ image_files' = SortFiles(FilterImageFiles(listing))
               /\ IF image_files' = <<>>
                  THEN /\ result' = <<>>
                       /\ fpc' = "returned"
                       /\ UNCHANGED fidx
                  ELSE /\ fidx' = 1
                       /\ fpc' = "load"
                       /\ UNCHANGED result
    /\ UNCHANGED <<folder_exists, listing, loaded, undecodable, output_file, runs, mainVars>>
    /\ UNCHANGED stitchVars
    /\ UNCHANGED saveVars

\* faulty variant: the file is appended whether or not it opened
ImagesAfterOpen_Always(imgs, img, ok) == Append(imgs, img)

\* stitcher.py:234-237  images.append(img) is skipped when Image.open raised
ImagesAfterOpen(imgs, img, ok) == IF ok THEN Append(imgs, img) ELSE imgs

\* stitcher.py:231-237  one iteration of the loading loop; an Image.open
\* that raises is logged and the loop goes on
FolderLoad ==
    /\ fpc = "load"
    /\ fidx <= Len(image_files)
    /\ \E open_fails \in BOOLEAN :
          /\ IF open_fails
             THEN /\ undecodable' = undecodable \cup {image_files[fidx]}
                  /\ fpc' = IF "open" \in TrySites THEN fpc ELSE "propagated"
                  /\ UNCHANGED loaded
             ELSE /\ loaded' = Append(loaded, image_files[fidx])
                  /\ UNCHANGED <<undecodable, fpc>>
          /\ images' = ImagesAfterOpen(images, FileImage(image_files[fidx]),
                                       ~open_fails)
    /\ fidx' = fidx + 1
    /\ UNCHANGED <<folder_exists, listing, image_files, output_file, result, runs, mainVars>>
    /\ UNCHANGED <<width_omitted, width_arg, target_width, max_height, pc, idx,
                   image_data, stitched_images, current_images, current_height,
                   batches, failed, dropped, raised>>
    /\ UNCHANGED saveVars

\* stitcher.py:240  stitch_images_multi_page(images, target_width, max_height, quality)
FolderStitch ==
    /\ fpc = "load"
    /\ fidx > Len(image_files)
    /\ pc = "idle"
    /\ pc' = "call"
    /\ fpc' = "stitching"
    /\ UNCHANGED <<images, width_omitted, width_arg, target_width, max_height,
                   idx, image_data, stitched_images, current_images,
                   current_height, batches, failed, dropped, raised>>
    /\ UNCHANGED <<folder_exists, listing, image_files, fidx, loaded,
                   undecodable, output_file, result, runs, mainVars>>
    /\ UNCHANGED saveVars

\* stitcher.py:243-244  save_stitched_images(stitched_images, output_file, quality)
FolderSave ==
    /\ fpc = "stitching"
    /\ pc = "returned"
    /\ stitched_images # <<>>
    /\ spc = "idle"
    /\ spc' = "call"
    /\ output_path_template' = output_file
    /\ fpc' = "saving"
    /\ UNCHANGED <<output_dir, ext, saved_paths, files, dirs, sidx, io_failed,
                   attempts>>
    /\ UNCHANGED <<folder_exists, listing, image_files, fidx, loaded,
                   undecodable, output_file, result, runs, mainVars>>
    /\ UNCHANGED stitchVars

\* stitcher.py:245-246  nothing was stitched: return []
FolderNoPages ==
    /\ fpc = "stitching"
    /\ pc = "returned"
    /\ stitched_images = <<>>
    /\ result' = <<>>
    /\ fpc' = "returned"
    /\ UNCHANGED <<folder_exists, listing, image_files, fidx, loaded,
                   undecodable, output_file, runs, mainVars>>
    /\ UNCHANGED stitchVars
    /\ UNCHANGED saveVars

\* stitcher.py:244  return what save_stitched_images returned
FolderReturn ==
    /\ fpc = "saving"
    /\ spc = "returned"
    /\ result' = saved_paths
    /\ fpc' = "returned"
    /\ UNCHANGED <<folder_exists, listing, image_files, fidx, loaded,
                   undecodable, output_file, runs, mainVars>>
    /\ UNCHANGED stitchVars
    /\ UNCHANGED saveVars

\* save_stitched_images is only called with a non-empty list here
NextFolder ==
    \/ FolderMissing
    \/ FolderList
    \/ FolderLoad
    \/ FolderStitch
    \/ FolderSave
    \/ FolderNoPages
    \/ FolderReturn
    \/ Next
    \/ SaveOpen
    \/ SaveSingle
    \/ SaveNext
    \/ SaveReturn

SpecFolder == InitFolder /\ [][NextFolder]_vars

\* ------------------------------------------- run_multi_page_stitcher
NumRuns == 2    \* invocations of run_multi_page_stitcher

\* comic and chapter names
ComicNames == {<<"m">>, <<"n">>}
ChapterNames == {<<"1">>, <<"2">>, <<"1", "/", "2">>}

\* stitcher.py:268-269  name.replace('/', '_').replace('\\', '_')
Sanitize(name) ==
    [k \in 1..Len(name) |-> IF name[k] \in {"/", "\\"} THEN "_" ELSE name[k]]

Processed == <<"p", "r", "o", "c", "e", "s", "s", "e", "d">>

\* stitcher.py:273  os.path.join("processed", safe_comic_name)
RunOutputDir(comic_name) == Join(Processed, Sanitize(comic_name))

\* stitcher.py:274  os.path.join(output_dir, f"{safe_chapter_name}.jpg")
RunOutputFile(comic_name, chapter_name) ==
    Join(RunOutputDir(comic_name), Sanitize(chapter_name) \o <<".", "j", "p", "g">>)

\* stitcher.py:173-181  the path of the page at 0-based position i of n pages
PagePath(dir, e, i, n) ==
    Join(dir, IF n = 1 THEN SingleName(e) ELSE OutputName(i, e))

\* what the invocations leave alone: the state of the single calls
callVars == <<stitchVars, folderVars, output_path_template, output_dir, ext,
              saved_paths, spc, sidx, io_failed, attempts, mainVars>>

\* NumRuns invocations, each for a comic and a chapter, on one file system
InitChapters ==
    /\ images = <<>>
    /\ width_omitted = FALSE
    /\ width_arg = 0
    /\ target_width = 0
    /\ max_height = DefaultMaxHeight
    /\ pc = "idle"
    /\ idx = 0
    /\ image_data = <<>>
    /\ stitched_images = <<>>
    /\ current_images = <<>>
    /\ current_height = 0
    /\ batches = <<>>
    /\ failed = {}
    /\ dropped = 0
    /\ raised = FALSE
    /\ SaveIdle
    /\ FolderIdle
    /\ MainIdle
    /\ runs \in [1..NumRuns ->
                   {[comic_name |-> c, chapter_name |-> ch, rpc |-> "call",
                     output_file |-> <<>>, output_dir |-> <<>>, ext |-> <<>>,
                     pages |-> 0, i |-> 0, saved_paths |-> <<>>] :
                       c \in ComicNames, ch \in ChapterNames}]

\* stitcher.py:268-277  the paths of the invocation and its output
\* directory; os.makedirs stands outside any try
RunStart(r) ==
    /\ runs[r].rpc = "call"
    /\ \E makedirs_fails \in BOOLEAN :
          IF makedirs_fails
          THEN /\ runs' = [runs EXCEPT ![r].rpc = AfterRaise("run_makedirs")]
               /\ UNCHANGED dirs
          ELSE /\ runs' = [runs EXCEPT
                             ![r].output_file =
                                 RunOutputFile(runs[r].comic_name, runs[r].chapter_name),
                             ![r].rpc = "folder"]
               /\ dirs' = dirs \cup {RunOutputDir(runs[r].comic_name)}
    /\ UNCHANGED files
    /\ UNCHANGED callVars

\* stitcher.py:280, 207-246  the folder of the chapter gives some number of
\* pages; none: stitch_folder_multi_page returns []
RunFolder(r) ==
    /\ runs[r].rpc = "folder"
    /\ \E n \in 0..MaxPages :
          runs' = [runs EXCEPT ![r].pages = n,
                               ![r].rpc = IF n = 0 THEN "returned" ELSE "save"]
    /\ UNCHANGED <<files, dirs>>
    /\ UNCHANGED callVars

\* stitcher.py:164-170  save_stitched_images(stitched_images, output_file):
\* directory and extension of the template
RunSaveOpen(r) ==
    /\ runs[r].rpc = "save"
    /\ LET d == Dirname(runs[r].output_file)
       IN  \E makedirs_fails \in BOOLEAN :
              IF makedirs_fails \/ MakedirsRaises(d)
              THEN /\ runs' = [runs EXCEPT ![r].rpc = AfterRaise("makedirs")]
                   /\ UNCHANGED dirs
              ELSE /\ runs' = [runs EXCEPT
                                 ![r].output_dir = d,
                                 ![r].ext = Splitext(runs[r].output_file),
                                 ![r].i = 0,
                                 ![r].rpc = "loop"]
                   /\ dirs' = dirs \cup {d}
    /\ UNCHANGED files
    /\ UNCHANGED callVars

\* stitcher.py:173-184  one page is written, or its save raises and the
\* function returns (188-190)
RunSaveNext(r) ==
    /\ runs[r].rpc = "loop"
    /\ runs[r].i < runs[r].pages
    /\ LET output_path == PagePath(runs[r].output_dir, runs[r].ext,
                                   runs[r].i, runs[r].pages)
       IN  \E save_fails \in BOOLEAN :
              IF save_fails
              THEN /\ runs' = [runs EXCEPT ![r].rpc = AfterRaise("save")]
                   /\ UNCHANGED files
              ELSE /\ runs' = [runs EXCEPT
                                 ![r].saved_paths =
                                     PathsAfterSave(runs[r].saved_paths, output_path, TRUE),
                                 ![r].i = runs[r].i + 1]
                   /\ files' = WriteFile(files, output_path,
                                         [run |-> r, part |-> runs[r].i + 1])
    /\ UNCHANGED dirs
    /\ UNCHANGED callVars

\* stitcher.py:186, 244, 280  the list of paths goes back to the caller
RunReturn(r) ==
    /\ runs[r].rpc = "loop"
    /\ runs[r].i >= runs[r].pages
    /\ runs' = [runs EXCEPT ![r].rpc = "returned"]
    /\ UNCHANGED <<files, dirs>>
    /\ UNCHANGED callVars

\* the invocations run one after the other or interleaved
NextChapters ==
    \/ \E r \in 1..NumRuns : RunStart(r)
    \/ \E r \in 1..NumRuns : RunFolder(r)
    \/ \E r \in 1..NumRuns : RunSaveOpen(r)
    \/ \E r \in 1..NumRuns : RunSaveNext(r)
    \/ \E r \in 1..NumRuns : RunReturn(r)

SpecChapters == InitChapters /\ [][NextChapters]_vars

\* ------------------------------------ the callers of main.py: stitching
\* the settings a user may have: the defaults, and a width and a height
\* of their own
ImageWidthSettings == {DefaultImageWidth, 2}
ImageHeightSettings == {DefaultImageHeight, 3}

\* main.py:855  max_height = target_height if target_height > 0 else 12000
StitchImagesMaxHeight(target_height) ==
    IF target_height > 0 THEN target_height ELSE FallbackMaxHeight

\* main.py:1007  settings.get("image_height", 12000): load_settings merges
\* the defaults (main.py:102), so the key is always there
ProcessComicMaxHeight(height_setting) == height_setting

\* faulty variant: the last page is handed back
FirstPage_Last(pages) == IF pages # <<>> THEN pages[Len(pages)] ELSE NonePage

\* main.py:859-862  the first page, None for an empty result
FirstPage(pages) == IF pages # <<>> THEN pages[1] ELSE NonePage

\* stitch_images(images) or the stitching part of process_comic, for the
\* images of a chapter and the user's settings
InitWrappers ==
    /\ images \in SeqsUpTo(ImageSet, MaxCallerImages)
    /\ width_omitted = FALSE
    /\ target_width = 0
    /\ width_arg = 0
    /\ max_height = 0
    /\ pc = "idle"
    /\ idx = 0
    /\ image_data = <<>>
    /\ stitched_images = <<>>
    /\ current_images = <<>>
    /\ current_height = 0
    /\ batches = <<>>
    /\ failed = {}
    /\ dropped = 0
    /\ raised = FALSE
    /\ SaveIdle
    /\ FolderIdle
    /\ runs = <<>>
    /\ LoopIdle
    /\ caller \in {"stitch_images", "process_comic"}
    /\ image_width \in ImageWidthSettings
    /\ image_height \in ImageHeightSettings
    /\ wpc = "call"
    /\ stitched_image = <<>>

\* main.py:842-844  stitch_images: no images, return None
StitchImagesNoImages ==
    /\ caller = "stitch_images"
    /\ wpc = "call"
    /\ images = <<>>
    /\ stitched_image' = NonePage
    /\ wpc' = "returned"
    /\ UNCHANGED <<caller, image_width, image_height>>
    /\ UNCHANGED <<stitchVars, saveVars, folderVars, runs, loopVars>>

\* main.py:846-856  stitch_images: width and height from the settings, the
\* bound, and the call of stitch_images_multi_page
StitchImagesCall ==
    /\ caller = "stitch_images"
    /\ wpc = "call"
    /\ images # <<>>
    /\ target_width' = image_width
    /\ width_arg' = image_width
    /\ max_height' = StitchImagesMaxHeight(image_height)
    /\ pc' = "call"
    /\ wpc' = "stitching"
    /\ UNCHANGED <<images, width_omitted, idx, image_data, stitched_images,
                   current_images, current_height, batches, failed, dropped, raised>>
    /\ UNCHANGED <<caller, image_width, image_height, stitched_image>>
    /\ UNCHANGED <<saveVars, folderVars, runs, loopVars>>

\* main.py:859-862  stitch_images: return the first image, or None
StitchImagesReturn ==
    /\ caller = "stitch_images"
    /\ wpc = "stitching"
    /\ pc = "returned"
    /\ stitched_image' = FirstPage(stitched_images)
    /\ wpc' = "returned"
    /\ UNCHANGED <<caller, image_width, image_height>>
    /\ UNCHANGED <<stitchVars, saveVars, folderVars, runs, loopVars>>

\* main.py:982-986  process_comic: nothing was downloaded, return False
ProcessComicNoImages ==
    /\ caller = "process_comic"
    /\ wpc = "call"
    /\ images = <<>>
    /\ wpc' = "returned False"
    /\ UNCHANGED <<caller, image_width, image_height, stitched_image>>
    /\ UNCHANGED <<stitchVars, saveVars, folderVars, runs, loopVars>>

\* main.py:1005-1011  process_comic: width and bound from the settings and
\* the call of stitch_images_multi_page
ProcessComicStitch ==
    /\ caller = "process_comic"
    /\ wpc = "call"
    /\ images # <<>>
    /\ target_width' = image_width
    /\ width_arg' = image_width
    /\ max_height' = ProcessComicMaxHeight(image_height)
    /\ pc' = "call"
    /\ wpc' = "stitching"
    /\ UNCHANGED <<images, width_omitted, idx, image_data, stitched_images,
                   current_images, current_height, batches, failed, dropped, raised>>
    /\ UNCHANGED <<caller, image_width, image_height, stitched_image>>
    /\ UNCHANGED <<saveVars, folderVars, runs, loopVars>>

\* main.py:1012-1014  process_comic: no page, return False; else go on to
\* the saving
ProcessComicStitched ==
    /\ caller = "process_comic"
    /\ wpc = "stitching"
    /\ pc = "returned"
    /\ wpc' = IF stitched_images = <<>> THEN "returned False" ELSE "save"
    /\ UNCHANGED <<caller, image_width, image_height, stitched_image>>
    /\ UNCHANGED <<stitchVars, saveVars, folderVars, runs, loopVars>>

\* stitch_images_multi_page is never called with an empty list here
NextWrappers ==
    \/ StitchImagesNoImages
    \/ StitchImagesCall
    \/ StitchImagesReturn
    \/ ProcessComicNoImages
    \/ ProcessComicStitch
    \/ ProcessComicStitched
    \/ CalcDimensions
    \/ NormalizeStep
    \/ NormalizeRaises
    \/ StartPacking
    \/ PackStep
    \/ FinishStitching

SpecWrappers == InitWrappers /\ [][NextWrappers]_vars

\* ------------------------------- main_check_loop and process_comic
\* the sites with an adapter, and a comic of neither site
AdapterSites == {"baozimh", "twmanga"}
ComicSites == AdapterSites \cup {"other"}

\* chapters as the adapters report them; NoChapter: nothing was found
NoChapter == 0
ChapterSet == {1, 2}

\* the chapter a comic of comics.json was last seen at
KnownChapters == {1}

\* a tracked comic: its site and its last known chapter
ComicSet == {[site |-> st, last_known_chapter |-> ch] : st \in ComicSites, ch \in KnownChapters}

\* what a chapter gives: images downloaded, pages stitched
DownloadCounts == {0, 1}
PageCounts == {0, 1, 2}

\* main.py:1174  tracked_comics.index(comic): the first equal element
IndexOf(tracked, comic) ==
    CHOOSE i \in 1..Len(tracked) :
       /\ tracked[i] = comic
       /\ \A j \in 1..(i - 1) : tracked[j] # comic

\* main.py:1155-1171, unified_workflow.py:233-248  the adapter of the
\* comic's site is disabled in the settings
SiteDisabled(comic) == comic.site \in AdapterSites /\ ~site_enabled[comic.site]

\* main.py:795-816  get_site_adapter returns None
NoAdapter(comic) == comic.site \notin AdapterSites

\* faulty variant: an empty list of saved files is not noticed
SaveFailed_Never(saved) == FALSE

\* main.py:1021, unified_workflow.py:141  `if not saved_files`
SaveFailed(saved) == saved = 0

\* main.py:1012, unified_workflow.py:133  `if not stitched_images`
StitchFailed(pages) == pages = 0

\* faulty variant: no handler around the visit of a comic
CaughtInLoop_Not == FALSE

\* main.py:1153, 1176-1177, unified_workflow.py:231, 252-253  the visit of
\* a comic stands in try / except Exception
CaughtInLoop == TRUE

\* a run of the check loop of either workflow over the tracked comics
InitMain ==
    /\ images = <<>>
    /\ width_omitted = FALSE
    /\ target_width = 0
    /\ width_arg = 0
    /\ max_height = 0
    /\ pc = "idle"
    /\ idx = 0
    /\ image_data = <<>>
    /\ stitched_images = <<>>
    /\ current_images = <<>>
    /\ current_height = 0
    /\ batches = <<>>
    /\ failed = {}
    /\ dropped = 0
    /\ raised = FALSE
    /\ SaveIdle
    /\ FolderIdle
    /\ runs = <<>>
    /\ WrapperIdle
    /\ workflow \in {"main", "unified"}
    /\ site_enabled \in [AdapterSites -> BOOLEAN]
    /\ tracked_comics \in SeqsUpTo(ComicSet, MaxComics)
    /\ mpc = "call"
    /\ comic_i = 0
    /\ total_checked = 0
    /\ new_chapters = 0
    /\ ppc = "idle"
    /\ comic_index = 0
    /\ current_chapter = NoChapter
    /\ n_pages = 0
    /\ n_saved = 0
    /\ at_entry = <<>>
    /\ save_count = 0
    /\ visits = <<>>

\* what the check loop leaves alone
loopFrame == <<stitchVars, saveVars, folderVars, runs, wrapperVars>>

\* the visit of tracked_comics[comic_i] ends: skipped, process_comic
\* returned True or False, or an exception reached the loop's handler
EndVisit(outcome, after) ==
    /\ visits' = Append(visits, [index |-> comic_i, outcome |-> outcome,
                                 comic_index |-> comic_index,
                                 chapter |-> current_chapter,
                                 pages |-> n_pages, saved |-> n_saved,
                                 before |-> at_entry, after |-> after])
    /\ tracked_comics' = after
    /\ new_chapters' = IF outcome = "True" THEN new_chapters + 1 ELSE new_chapters
    /\ comic_i' = comic_i + 1
    /\ ppc' = "idle"
    /\ mpc' = IF outcome = "raised" /\ ~CaughtInLoop THEN "propagated" ELSE "loop"
    /\ UNCHANGED <<workflow, site_enabled, total_checked, comic_index,
                   current_chapter, n_pages, n_saved, at_entry, save_count>>
    /\ UNCHANGED loopFrame

\* main.py:1134-1148, unified_workflow.py:222-224  nothing is tracked
LoopNoComics ==
    /\ mpc = "call"
    /\ tracked_comics = <<>>
    /\ mpc' = "returned"
    /\ UNCHANGED <<workflow, site_enabled, tracked_comics, comic_i, total_checked,
                   new_chapters, ppc, comic_index, current_chapter, n_pages,
                   n_saved, at_entry, save_count, visits>>
    /\ UNCHANGED loopFrame

\* main.py:1150-1153, unified_workflow.py:226-230  the loop begins
LoopStart ==
    /\ mpc = "call"
    /\ tracked_comics # <<>>
    /\ mpc' = "loop"
    /\ comic_i' = 1
    /\ UNCHANGED <<workflow, site_enabled, tracked_comics, total_checked,
                   new_chapters, ppc, comic_index, current_chapter, n_pages,
                   n_saved, at_entry, save_count, visits>>
    /\ UNCHANGED loopFrame

\* main.py:1155-1171, unified_workflow.py:233-248  a comic of a disabled
\* site adapter is skipped
LoopSkip ==
    /\ mpc = "loop"
    /\ comic_i <= Len(tracked_comics)
    /\ SiteDisabled(tracked_comics[comic_i])
    /\ at_entry' = tracked_comics
    /\ comic_index' = 0
    /\ current_chapter' = NoChapter
    /\ n_pages' = 0
    /\ n_saved' = 0
    /\ visits' = Append(visits, [index |-> comic_i, outcome |-> "skipped",
                                 comic_index |-> 0, chapter |-> NoChapter,
                                 pages |-> 0, saved |-> 0,
                                 before |-> tracked_comics, after |-> tracked_comics])
    /\ comic_i' = comic_i + 1
    /\ UNCHANGED <<workflow, site_enabled, tracked_comics, mpc, total_checked,
                   new_chapters, ppc, save_count>>
    /\ UNCHANGED loopFrame

\* main.py:1173-1174, unified_workflow.py:250  process_comic is called;
\* main.py passes tracked_comics.index(comic), the unified workflow the
\* position of the loop
LoopProcess ==
    /\ mpc = "loop"
    /\ comic_i <= Len(tracked_comics)
    /\ ~SiteDisabled(tracked_comics[comic_i])
    /\ total_checked' = IF workflow = "main" THEN total_checked + 1 ELSE total_checked
    /\ comic_index' = IF workflow = "main"
                      THEN IndexOf(tracked_comics, tracked_comics[comic_i])
                      ELSE comic_i
    /\ at_entry' = tracked_comics
    /\ current_chapter' = NoChapter
    /\ n_pages' = 0
    /\ n_saved' = 0
    /\ mpc' = "process"
    /\ ppc' = "adapter"
    /\ UNCHANGED <<workflow, site_enabled, tracked_comics, comic_i, new_chapters,
                   save_count, visits>>
    /\ UNCHANGED loopFrame

\* main.py:952-956  no adapter for the comic: return False
PcAdapter ==
    /\ ppc = "adapter"
    /\ IF NoAdapter(tracked_comics[comic_i])
       THEN EndVisit("False", tracked_comics)
       ELSE /\ ppc' = "chapter"
            /\ UNCHANGED <<workflow, site_enabled, tracked_comics, mpc, comic_i,
                           total_checked, new_chapters, comic_index, current_chapter,
                           n_pages, n_saved, at_entry, save_count, visits>>
            /\ UNCHANGED loopFrame

\* main.py:959-971  the latest chapter: none or the known one: return
\* False; a new one: go on
PcChapter ==
    /\ ppc = "chapter"
    /\ \E ch \in ChapterSet \cup {NoChapter} :
          IF ch = NoChapter \/ ch = tracked_comics[comic_i].last_known_chapter
          THEN EndVisit("False", tracked_comics)
          ELSE /\ current_chapter' = ch
               /\ ppc' = "download"
               /\ UNCHANGED <<workflow, site_enabled, tracked_comics, mpc, comic_i,
                              total_checked, new_chapters, comic_index, n_pages,
                              n_saved, at_entry, save_count, visits>>
               /\ UNCHANGED loopFrame

\* main.py:974-986  directories, download; nothing downloaded: return False
PcDownload ==
    /\ ppc = "download"
    /\ \E n \in DownloadCounts :
          IF n = 0
          THEN EndVisit("False", tracked_comics)
          ELSE /\ ppc' = "stitch"
               /\ UNCHANGED <<workflow, site_enabled, tracked_comics, mpc, comic_i,
                              total_checked, new_chapters, comic_index,
                              current_chapter, n_pages, n_saved, at_entry,
                              save_count, visits>>
               /\ UNCHANGED loopFrame

\* main.py:1011-1014  stitch_images_multi_page gives some pages; none:
\* return False
PcStitch ==
    /\ ppc = "stitch"
    /\ \E n \in PageCounts :
          /\ n_pages' = n
          /\ IF StitchFailed(n)
             THEN /\ visits' = Append(visits,
                                  [index |-> comic_i, outcome |-> "False",
                                   comic_index |-> comic_index,
                                   chapter |-> current_chapter,
                                   pages |-> n, saved |-> n_saved,
                                   before |-> at_entry, after |-> tracked_comics])
                  /\ comic_i' = comic_i + 1
                  /\ ppc' = "idle"
                  /\ mpc' = "loop"
             ELSE /\ ppc' = "save"
                  /\ UNCHANGED <<mpc, comic_i, visits>>
    /\ UNCHANGED <<workflow, site_enabled, tracked_comics, total_checked,
                   new_chapters, comic_index, current_chapter, n_saved, at_entry,
                   save_count>>
    /\ UNCHANGED loopFrame

\* main.py:1017-1023  save_stitched_images gives the paths of the pages it
\* wrote, maybe not all; none: return False
PcSave ==
    /\ ppc = "save"
    /\ \E n \in 0..n_pages :
          /\ n_saved' = n
          /\ IF SaveFailed(n)
             THEN /\ visits' = Append(visits,
                                  [index |-> comic_i, outcome |-> "False",
                                   comic_index |-> comic_index,
                                   chapter |-> current_chapter,
                                   pages |-> n_pages, saved |-> n,
                                   before |-> at_entry, after |-> tracked_comics])
                  /\ comic_i' = comic_i + 1
                  /\ ppc' = "idle"
                  /\ mpc' = "loop"
             ELSE /\ ppc' = "publish"
                  /\ UNCHANGED <<mpc, comic_i, visits>>
    /\ UNCHANGED <<workflow, site_enabled, tracked_comics, total_checked,
                   new_chapters, comic_index, current_chapter, n_pages, at_entry,
                   save_count>>
    /\ UNCHANGED loopFrame

\* main.py:1025-1122  zip archive, upload, notification
PcPublish ==
    /\ ppc = "publish"
    /\ ppc' = "update"
    /\ UNCHANGED <<workflow, site_enabled, tracked_comics, mpc, comic_i,
                   total_checked, new_chapters, comic_index, current_chapter,
                   n_pages, n_saved, at_entry, save_count, visits>>
    /\ UNCHANGED loopFrame

\* main.py:1124-1126  the comic's last known chapter is set; return True
PcUpdate ==
    /\ ppc = "update"
    /\ EndVisit("True", [tracked_comics EXCEPT
                            ![comic_index].last_known_chapter = current_chapter])

\* main.py:959, 977-981, 1028-1042, 1112-1122  the adapter, makedirs, the
\* zip file, the upload or the notification raises: the exception leaves
\* process_comic and reaches the handler of the loop (1176-1177)
PcRaises ==
    /\ ppc \in {"chapter", "download", "publish"}
    /\ EndVisit("raised", tracked_comics)

\* main.py:1179-1184, unified_workflow.py:255-260  the tracked comics are
\* written back; save_tracked_comics catches IOError, the unified workflow
\* writes without a handler
LoopSave ==
    /\ mpc = "loop"
    /\ comic_i > Len(tracked_comics)
    /\ save_count' = save_count + 1
    /\ \E write_fails \in BOOLEAN :
          mpc' = IF write_fails /\ workflow = "unified" THEN "propagated"
                 ELSE "returned"
    /\ UNCHANGED <<workflow, site_enabled, tracked_comics, comic_i, total_checked,
                   new_chapters, ppc, comic_index, current_chapter, n_pages,
                   n_saved, at_entry, visits>>
    /\ UNCHANGED loopFrame

NextMain ==
    \/ LoopNoComics
    \/ LoopStart
    \/ LoopSkip
    \/ LoopProcess
    \/ PcAdapter
    \/ PcChapter
    \/ PcDownload
    \/ PcStitch
    \/ PcSave
    \/ PcPublish
    \/ PcUpdate
    \/ PcRaises
    \/ LoopSave

SpecMain == InitMain /\ [][NextMain]_vars

\* every step of the loop and of process_comic comes back to its caller
SpecMainFair == SpecMain /\ WF_vars(NextMain)

\* =================================================================
\* Properties of stitch_images_multi_page
\* =================================================================
RECURSIVE Flatten(_)
Flatten(ss) == IF ss = <<>> THEN <<>> ELSE ss[1] \o Flatten(Tail(ss))

\* the input positions of the entries of a batch, in batch order
ImagesOf(batch) == [k \in 1..Len(batch) |-> batch[k].image]

BatchesOfPages == [k \in 1..Len(stitched_images) |-> stitched_images[k].batch]

\* every input image has a positive width (every SourceImage of the data
\* model has; a zero width makes the call return before packing)
PositiveWidths == \A i \in 1..Len(images) : images[i].width > 0

\* every input image has positive width and height
AllSourceImages ==
    \A i \in 1..Len(images) : images[i].width > 0 /\ images[i].height > 0

\* m is the maximum width of the input images
IsMaxInputWidth(m) ==
    /\ \E i \in 1..Len(images) : images[i].width = m
    /\ \A i \in 1..Len(images) : images[i].width <= m

StrictlyIncreasing(s) == \A i, j \in 1..Len(s) : i < j => s[i] < s[j]

\* the offset planned for position k of a batch
PlannedOffset(batch, k) == SumHeights(SubSeq(batch, 1, k - 1))

\* C1: for every input list of images of positive width and every
\* max_height, the batches built by the packer partition the input
\* contiguously: while packing, the closed batches followed by the running
\* batch are exactly the entries handled so far, in input order; at the
\* return the batches concatenated are the whole input in its order (so no
\* entry is in two batches), no batch is empty, and the entries of the
\* returned pages follow input order across and inside pages.
C1_Partition ==
    /\ \A k \in 1..Len(batches) : batches[k] # <<>>
    /\ pc = "pack" =>
          Flatten(batches) \o current_images = SubSeq(image_data, 1, idx - 1)
    /\ (pc = "returned" /\ PositiveWidths) =>
          /\ ImagesOf(Flatten(batches)) = [i \in 1..Len(images) |-> i]
          /\ StrictlyIncreasing(ImagesOf(Flatten(BatchesOfPages)))
          /\ \A k \in 1..Len(stitched_images) :
                StrictlyIncreasing([n \in 1..Len(stitched_images[k].pastes) |->
                                       stitched_images[k].pastes[n].image])

C1_Witness ==
    /\ pc = "returned"
    /\ Len(images) = 3
    /\ Len(batches) = 2
    /\ Len(stitched_images) = 2
    /\ Len(batches[1]) = 2

\* C2: every page (and every batch) of two or more entries has total
\* height <= max_height; a page is taller than max_height only if it
\* consists of exactly one entry whose own target height exceeds it.
C2_HeightBound ==
    /\ \A k \in 1..Len(batches) :
          /\ Len(batches[k]) >= 2 => SumHeights(batches[k]) <= max_height
          /\ SumHeights(batches[k]) > max_height =>
                Len(batches[k]) = 1 /\ batches[k][1].height > max_height
    /\ \A k \in 1..Len(stitched_images) :
          LET page == stitched_images[k] IN
          /\ page.height = SumHeights(page.batch)
          /\ Len(page.batch) >= 2 => page.height <= max_height
          /\ page.height > max_height =>
                Len(page.batch) = 1 /\ page.batch[1].height > max_height

C2_Witness ==
    /\ pc = "returned"
    /\ Len(stitched_images) = 2
    /\ Len(stitched_images[1].batch) = 2
    /\ stitched_images[1].height = max_height
    /\ stitched_images[2].height > max_height

\* C3: for input images of positive width, an entry whose target height
\* alone exceeds max_height is never rejected or split: at the return it is
\* in exactly one batch and alone in it, wherever it stands in the input;
\* when every entry is taller than max_height, N inputs give N batches of
\* one entry each and one page per batch whose canvas could be created.
C3_OversizedAlone ==
    (pc = "returned" /\ PositiveWidths) =>
        /\ \A i \in 1..Len(image_data) :
              image_data[i].height > max_height =>
                 \E k \in 1..Len(batches) :
                    /\ batches[k] = <<image_data[i]>>
                    /\ \A m \in 1..Len(batches) :
                          (\E n \in 1..Len(batches[m]) :
                              batches[m][n].image = i) => m = k
        /\ (\A i \in 1..Len(image_data) : image_data[i].height > max_height) =>
              /\ Len(image_data) = Len(images)
              /\ Len(batches) = Len(images)
              /\ \A k \in 1..Len(batches) : ImagesOf(batches[k]) = <<k>>
              /\ Len(stitched_images) = Len(images) - dropped
              /\ \A k \in 1..Len(stitched_images) :
                    Len(stitched_images[k].batch) = 1
              /\ dropped = 0 =>
                    \A k \in 1..Len(stitched_images) :
                       ImagesOf(stitched_images[k].batch) = <<k>>

\* an oversized entry in the middle between entries that fit
C3_Witness ==
    /\ pc = "returned"
    /\ Len(images) = 3
    /\ max_height > 0
    /\ Len(stitched_images) = 3
    /\ image_data[2].height > max_height
    /\ image_data[1].height + image_data[3].height <= max_height
    /\ image_data[1].height > 0

\* C4 (as claimed): with max_height <= 0 a non-empty input of valid images
\* gives, when nothing fails, exactly one page holding all entries.
C4_UnboundedWhenNonPositive ==
    (/\ pc = "returned"
     /\ max_height <= 0
     /\ images # <<>>
     /\ AllSourceImages
     /\ dropped = 0
     /\ failed = {}) =>
        /\ Len(stitched_images) = 1
        /\ ImagesOf(stitched_images[1].batch) = [i \in 1..Len(images) |-> i]

\* C6 (as claimed): at the return the pages hold N entries minus the
\* entries that raised InvalidImage (a dimension <= 0) or ResizeFailure.
PastedCount == Len(Flatten([k \in 1..Len(stitched_images) |->
                               stitched_images[k].pastes]))

InvalidImages ==
    {i \in 1..Len(images) : images[i].width <= 0 \/ images[i].height <= 0}

C6_Completeness ==
    (/\ pc = "returned"
     /\ dropped = 0
     /\ \A i \in 1..Len(images) : images[i].height > 0) =>
        PastedCount = Len(images) - Cardinality(InvalidImages \cup failed)

\* C7: every page returned has width exactly target_width when the
\* argument is > 0, and exactly the maximum width of the input images when
\* it is None or <= 0; all pages of one call have the same width.
C7_WidthNormalization ==
    \A k \in 1..Len(stitched_images) :
        /\ width_arg > 0 => stitched_images[k].width = width_arg
        /\ width_arg <= 0 => IsMaxInputWidth(stitched_images[k].width)
        /\ stitched_images[k].width = stitched_images[1].width

C7_Witness ==
    /\ pc = "returned"
    /\ width_arg <= 0
    /\ Len(stitched_images) >= 2
    /\ \E i, j \in 1..Len(images) :
          i > 1 /\ images[i].width > images[1].width /\ images[j].width < images[i].width

\* C8 (as claimed): called without target_width, the first returned page
\* is as wide as the widest input image.
C8_DefaultWidthIsAuto ==
    (pc = "returned" /\ width_omitted /\ stitched_images # <<>>) =>
        IsMaxInputWidth(stitched_images[1].width)

\* C9 (as claimed): an image with width or height <= 0 only skips that
\* entry; when nothing else fails every other image of the call is pasted
\* on a returned page.
C9_InvalidImageSkipsOneEntry ==
    (/\ pc = "returned"
     /\ InvalidImages # {}
     /\ dropped = 0
     /\ failed = {}) =>
        \A i \in (1..Len(images)) \ InvalidImages :
            \E k \in 1..Len(stitched_images) :
                \E n \in 1..Len(stitched_images[k].pastes) :
                    stitched_images[k].pastes[n].image = i

\* C10 (as claimed): when an entry of a page fails, the page has its
\* planned height, every other entry is pasted at the sum of the target
\* heights of the entries before it in the batch, and so the failed
\* entry's slice stays blank.
C10_FailedSliceBlank ==
    \A k \in 1..Len(stitched_images) :
        LET page == stitched_images[k] IN
        /\ page.height = SumHeights(page.batch)
        /\ \A n \in 1..Len(page.pastes) :
              \E m \in 1..Len(page.batch) :
                 /\ page.batch[m].image = page.pastes[n].image
                 /\ page.pastes[n].y = PlannedOffset(page.batch, m)

\* =================================================================
\* Properties of save_stitched_images
\* =================================================================
Numeral == <<"1", "2", "3", "4", "5", "6", "7", "8", "9">>

RECURSIVE CompletedWrites(_)
CompletedWrites(log) ==
    IF log = <<>> THEN <<>>
    ELSE (IF log[1].ok THEN <<log[1]>> ELSE <<>>) \o CompletedWrites(Tail(log))

\* C11 (as claimed): when the directory could be created and the write of
\* one page fails, the remaining pages are still attempted: at the return
\* every page has been attempted and the list holds the path of every page
\* whose write succeeded.
C11_ContinuesAfterWriteFailure ==
    (/\ spc = "returned"
     /\ stitched_images # <<>>
     /\ output_dir \in dirs) =>
        /\ \A k \in 1..Len(stitched_images) :
              \E n \in 1..Len(attempts) : attempts[n].page = k
        /\ saved_paths = [n \in 1..Len(CompletedWrites(attempts)) |->
                             CompletedWrites(attempts)[n].path]

\* C19: at every moment the list save_stitched_images builds (and returns)
\* holds exactly the paths of the img.save calls that completed, in the
\* order the files were created; each names a file that holds the page
\* written to it; the path of a page whose write failed or was not
\* attempted is not in the list.
C19_ReturnedPathsWereWritten ==
    /\ Len(saved_paths) = Len(CompletedWrites(attempts))
    /\ \A k \in 1..Len(saved_paths) :
          LET w == CompletedWrites(attempts)[k] IN
          /\ saved_paths[k] = w.path
          /\ <<saved_paths[k], stitched_images[w.page]>> \in files
    /\ \A n \in 1..Len(attempts) :
          ~attempts[n].ok =>
             \A k \in 1..Len(saved_paths) : saved_paths[k] # attempts[n].path
    /\ \A j, k \in 1..Len(saved_paths) : j # k => saved_paths[j] # saved_paths[k]
    /\ Len(attempts) <= Len(stitched_images)

\* two pages written, the write of the third failed
C19_Witness ==
    /\ spc = "returned"
    /\ Len(stitched_images) = 3
    /\ Len(saved_paths) = 2
    /\ Len(attempts) = 3
    /\ ~attempts[3].ok

\* C14 (as claimed): when at least one input image is valid (positive width
\* and height) and no resize, paste or canvas creation fails, the result
\* holds at least one page.
C14_NonEmptyWhenSomeImageValid ==
    (/\ pc = "returned"
     /\ \E i \in 1..Len(images) : images[i].width > 0 /\ images[i].height > 0
     /\ dropped = 0
     /\ failed = {}) =>
        stitched_images # <<>>

\* C20: for two or more input images of positive width whose target
\* heights add up to more than a positive max_height, the packer builds at
\* least two batches, and the call returns one page per batch whose canvas
\* could be created: at least two when none was dropped.
C20_SplitsWhenTooTall ==
    (/\ pc = "returned"
     /\ PositiveWidths
     /\ Len(images) >= 2
     /\ max_height > 0
     /\ SumHeights(image_data) > max_height) =>
        /\ Len(batches) >= 2
        /\ Len(stitched_images) = Len(batches) - dropped
        /\ dropped = 0 => Len(stitched_images) >= 2

\* two entries that each fit but not together
C20_Witness ==
    /\ pc = "returned"
    /\ Len(images) = 2
    /\ Len(image_data) = 2
    /\ max_height > 0
    /\ image_data[1].height <= max_height
    /\ image_data[2].height <= max_height
    /\ image_data[1].height + image_data[2].height > max_height
    /\ Len(stitched_images) = 2

\* C13: stitch_images_multi_page on an empty list returns [] and no
\* exception is raised; save_stitched_images on that empty list returns []
\* too, and neither creates the output directory nor writes a file nor
\* attempts a write.
C13_EmptyCase ==
    (images = <<>> /\ pc = "returned") =>
        /\ stitched_images = <<>>
        /\ ~raised
        /\ batches = <<>>
        /\ spc # "propagated"
        /\ spc = "returned" =>
              /\ saved_paths = <<>>
              /\ dirs = {}
              /\ files = {}
              /\ attempts = <<>>
              /\ ~io_failed

C13_Witness ==
    /\ images = <<>>
    /\ pc = "returned"
    /\ spc = "returned"
    /\ output_path_template = MkTemplate(<<"d">>, <<"c">>, <<"j">>)

\* =================================================================
\* Properties of stitch_folder_multi_page

\* the files of the folder by name: 10.png, 2a1.jpeg, 3.PNG, 7.jpg, 9.txt
\* and b.webp
File10png == <<"1", "0", ".", "p", "n", "g">>
File2a1jpeg == <<"2", "a", "1", ".", "j", "p", "e", "g">>
File3PNG == <<"3", ".", "P", "N", "G">>
File7jpg == <<"7", ".", "j", "p", "g">>
File9txt == <<"9", ".", "t", "x", "t">>
Filebwebp == <<"b", ".", "w", "e", "b", "p">>

\* the files with an image extension in any letter case
ImageNames == {File10png, File2a1jpeg, File3PNG, File7jpg, Filebwebp}

\* the integer formed from the digits of the name; -1 when it has none
FileNumber(name) ==
    CASE name = File10png -> 10
      [] name = File2a1jpeg -> 21
      [] name = File3PNG -> 3
      [] name = File7jpg -> 7
      [] name = File9txt -> 9
      [] OTHER -> -1

\* the place of the name in the lexicographic order of the names
LexRank(name) ==
    CASE name = File10png -> 1
      [] name = File2a1jpeg -> 2
      [] name = File3PNG -> 3
      [] name = File7jpg -> 4
      [] name = File9txt -> 5
      [] OTHER -> 6

ListedImageNames == {listing[i] : i \in 1..Len(listing)} \cap ImageNames

\* C16: once the folder is listed, image_files holds exactly the files of
\* the folder with extension png/jpg/jpeg/webp in any letter case, each
\* once; when every one of them has a digit they are in increasing order
\* of the integer formed from their digits, and when one of them has no
\* digit the whole list is in lexicographic order.
C16_FolderOrder ==
    image_files # <<>> =>
       /\ {image_files[i] : i \in 1..Len(image_files)} = ListedImageNames
       /\ Len(image_files) = Cardinality(ListedImageNames)
       /\ IF \A f \in ListedImageNames : FileNumber(f) >= 0
          THEN \A i, j \in 1..Len(image_files) :
                  i < j => FileNumber(image_files[i]) < FileNumber(image_files[j])
          ELSE \A i, j \in 1..Len(image_files) :
                  i < j => LexRank(image_files[i]) < LexRank(image_files[j])

C16_Witness ==
    /\ listing = <<File2a1jpeg, File10png, File3PNG>>
    /\ image_files = <<File3PNG, File10png, File2a1jpeg>>

Decodable(f) == f \notin undecodable

\* C17: a file whose Image.open raises is left out and the call goes on:
\* the image sequence handed to the stitcher is the images of the other
\* files in their sorted order, and when nothing else fails (no division
\* by a zero width, no page dropped, no write failed) the pages hold
\* exactly those images in that order and one path per page is returned,
\* each written.
C17_UndecodableExcluded ==
    (fpc \in {"stitching", "saving", "returned"} /\ image_files # <<>>) =>
       /\ loaded = SelectSeq(image_files, Decodable)
       /\ images = [i \in 1..Len(loaded) |-> FileImage(loaded[i])]
       /\ (fpc = "returned" /\ loaded # <<>> /\ ~raised /\ dropped = 0
             /\ ~io_failed) =>
             /\ ImagesOf(Flatten(BatchesOfPages)) = [i \in 1..Len(loaded) |-> i]
             /\ result # <<>>
             /\ Len(result) = Len(stitched_images)
             /\ \A k \in 1..Len(result) : <<result[k], stitched_images[k]>> \in files

C17_Witness ==
    /\ fpc = "returned"
    /\ Len(image_files) = 3
    /\ undecodable = {image_files[2]}
    /\ ImagesOf(Flatten(BatchesOfPages)) = <<1, 2>>
    /\ Len(result) = 1
    /\ <<result[1], stitched_images[1]>> \in files

\* C18: at the return of stitch_folder_multi_page the result is the list
\* of save_stitched_images (which was called and has returned whenever a
\* page was stitched); when the folder does not exist, holds no image
\* file, or no image file could be opened, the result is empty, no write
\* was attempted and no file exists.
C18_FolderResult ==
    fpc = "returned" =>
       /\ result = saved_paths
       /\ stitched_images # <<>> => spc = "returned"
       /\ stitched_images = <<>> => (spc = "idle" /\ result = <<>>)
       /\ (\/ ~folder_exists
           \/ ListedImageNames = {}
           \/ \A i \in 1..Len(image_files) : image_files[i] \in undecodable) =>
             /\ result = <<>>
             /\ attempts = <<>>
             /\ files = {}

C18_Witness ==
    /\ fpc = "returned"
    /\ Len(image_files) = 2
    /\ Cardinality(undecodable) = 2
    /\ result = <<>>

\* C12: no exception leaves stitch_images_multi_page, save_stitched_images
\* or stitch_folder_multi_page: whatever division, resize, canvas, makedirs,
\* write, listdir, sort or open fails, each of them comes to its return,
\* and the folder call returns a list no longer than the list of pages.
C12_NothingPropagates ==
    /\ pc # "propagated"
    /\ spc # "propagated"
    /\ fpc # "propagated"
    /\ fpc = "returned" => Len(result) <= Len(stitched_images)

C12_Witness ==
    /\ fpc = "returned"
    /\ undecodable # {}
    /\ failed # {}
    /\ io_failed
    /\ attempts # <<>>

\* =================================================================
\* Properties of run_multi_page_stitcher

SavedBy(r) == {runs[r].saved_paths[k] : k \in 1..Len(runs[r].saved_paths)}

DifferentChapters(q, r) ==
    \/ runs[q].comic_name # runs[r].comic_name
    \/ runs[q].chapter_name # runs[r].chapter_name

\* C15 (as claimed): two invocations for different chapters, of the same
\* comic or not, write disjoint sets of files: no path is written by both,
\* so every file an invocation wrote still holds the page it wrote.
C15_DisjointOutputs ==
    \A q, r \in 1..NumRuns :
       (q # r /\ DifferentChapters(q, r)) =>
          /\ SavedBy(q) \cap SavedBy(r) = {}
          /\ \A k \in 1..Len(runs[q].saved_paths) :
                <<runs[q].saved_paths[k], [run |-> q, part |-> k]>> \in files

\* =================================================================
\* Single page, slices, dropped pages, greedy packing

\* the file 1.<ext> beside the template, for the templates of the callers
SingleFileOf(template) ==
    CASE template = <<"d", "/", "c", ".", "j">> -> <<"d", "/", "1", ".", "j">>
      [] template = <<"d", "/", "o">> -> <<"d", "/", "1">>

\* C21: for a non-empty input whose target heights sum to at most
\* max_height (max_height > 0), when no division, resize or canvas fails,
\* stitch_images_multi_page returns one page holding every entry in input
\* order; and when save_stitched_images has returned without a failed
\* write, it returned the one path 1.<ext> and that is the only file.
C21_SinglePage ==
    (/\ pc = "returned"
     /\ images # <<>>
     /\ ~raised
     /\ dropped = 0
     /\ failed = {}
     /\ max_height > 0
     /\ SumHeights(image_data) <= max_height) =>
        /\ Len(stitched_images) = 1
        /\ ImagesOf(stitched_images[1].batch) = [i \in 1..Len(images) |-> i]
        /\ stitched_images[1].height = SumHeights(image_data)
        /\ (spc = "returned" /\ ~io_failed) =>
              /\ saved_paths = <<SingleFileOf(output_path_template)>>
              /\ files = {<<SingleFileOf(output_path_template), stitched_images[1]>>}

C21_Witness ==
    /\ pc = "returned"
    /\ spc = "returned"
    /\ Len(images) = 2
    /\ max_height = 3
    /\ SumHeights(image_data) = 3
    /\ Len(stitched_images) = 1
    /\ saved_paths = <<<<"d", "/", "1", ".", "j">>>>

\* =================================================================
\* The heights computed by the normalizer

Abs(n) == IF n < 0 THEN -n ELSE n

FiveScenarioPages == [i \in 1..5 |-> [width |-> 600, height |-> 800]]

\* C22 (as claimed): the height of every entry is target_width * height /
\* width rounded to the nearest integer, i.e. it differs from the exact
\* quotient by at most one half; five 600x800 images at width 800 on one
\* page give a page of height 5335.
C22_RoundedHeight ==
    /\ \A k \in 1..Len(image_data) :
          LET img == images[image_data[k].image] IN
          img.width > 0 =>
             2 * Abs(image_data[k].height * img.width - target_width * img.height)
                <= img.width
    /\ (pc = "returned" /\ images = FiveScenarioPages /\ target_width = 800
          /\ Len(stitched_images) = 1) =>
          stitched_images[1].height = 5335

\* C23 (as claimed): every entry computed from an image of positive height
\* at a positive target width has a positive height.
C23_PositiveHeight ==
    \A k \in 1..Len(image_data) :
       (images[image_data[k].image].height > 0 /\ target_width > 0) =>
          image_data[k].height > 0

\* C24: a returned page all of whose entries were pasted has the width
\* target_width and the height of the sum of its batch's target heights;
\* its slices are the entries of the batch in batch order, the first at
\* offset 0, each next one beginning where the one before it ends, and
\* the last one ending at the page height.
C24_ConsecutiveSlices ==
    \A k \in 1..Len(stitched_images) :
        LET page == stitched_images[k] IN
        Len(page.pastes) = Len(page.batch) =>
           /\ page.batch # <<>>
           /\ page.width = target_width
           /\ page.height = SumHeights(page.batch)
           /\ page.pastes[1].y = 0
           /\ \A n \in 1..Len(page.pastes) :
                 /\ page.pastes[n].image = page.batch[n].image
                 /\ page.pastes[n].height = page.batch[n].height
                 /\ n > 1 => page.pastes[n].y =
                                page.pastes[n - 1].y + page.pastes[n - 1].height
           /\ page.pastes[Len(page.pastes)].y + page.pastes[Len(page.pastes)].height
                 = page.height

C24_Witness ==
    /\ pc = "returned"
    /\ Len(stitched_images) = 1
    /\ Len(stitched_images[1].pastes) = 3
    /\ stitched_images[1].pastes[2].y = 2
    /\ stitched_images[1].pastes[3].y = 3
    /\ stitched_images[1].height = 5

\* the file <k>.<ext> beside the template, for the templates of the callers
NumberedFileOf(template, k) ==
    CASE template = <<"d", "/", "c", ".", "j">> -> <<"d", "/", Numeral[k], ".", "j">>
      [] template = <<"d", "/", "o">> -> <<"d", "/", Numeral[k]>>

\* C25 (as claimed): no returned page has a total height of zero (such a
\* page is dropped); a batch whose canvas could not be made is dropped and
\* every other batch still gives its page; and the files saved are
\* numbered 1, 2, ... over the pages that remain.
C25_DroppedPages ==
    /\ \A k \in 1..Len(stitched_images) : stitched_images[k].height # 0
    /\ (pc = "returned" /\ ~raised) =>
          Len(stitched_images) = Len(batches) - dropped
    /\ (spc = "returned" /\ ~io_failed /\ stitched_images # <<>>) =>
          saved_paths = [k \in 1..Len(stitched_images) |->
                            NumberedFileOf(output_path_template, k)]

\* C26: for max_height > 0, a batch is closed only when the next entry
\* does not fit: the total height of every closed batch plus the height of
\* the first entry of the batch after it (closed, or still running) is
\* greater than max_height; and while packing, current_height is the sum
\* of the heights of the entries of the running batch.
C26_GreedyMaximality ==
    /\ max_height > 0 =>
          /\ \A k \in 1..(Len(batches) - 1) :
                SumHeights(batches[k]) + batches[k + 1][1].height > max_height
          /\ (pc = "pack" /\ batches # <<>> /\ current_images # <<>>) =>
                SumHeights(batches[Len(batches)]) + current_images[1].height
                   > max_height
    /\ pc = "pack" => current_height = SumHeights(current_images)

C26_Witness ==
    /\ pc = "returned"
    /\ max_height = 3
    /\ Len(batches) = 2
    /\ Len(batches[1]) = 2
    /\ SumHeights(batches[1]) = 3

\* =================================================================
\* Properties of the callers in main.py

\* C28 (as claimed): stitch_images and process_comic hand the packer the
\* same max_height for the same image_height setting, and with the default
\* setting a chapter whose target heights sum to at most 12000 comes back
\* as one page from either of them (no division, canvas failure).
C28_SameBound ==
    (wpc \in {"stitching", "returned", "returned False", "save"} /\ images # <<>>) =>
       /\ max_height = StitchImagesMaxHeight(image_height)
       /\ (/\ pc = "returned"
           /\ image_height = DefaultImageHeight
           /\ ~raised
           /\ dropped = 0
           /\ SumHeights(image_data) <= 12000) =>
              Len(stitched_images) = 1

PastedImages(page) == {page.batch[n].image : n \in 1..Len(page.batch)}

\* C29: when main.stitch_images has returned, its value is None if it got
\* no images or the packer returned no page, and the first page of the
\* packer's result otherwise; the entries of every later page are not on
\* the returned image.
C29_FirstPageOnly ==
    (caller = "stitch_images" /\ wpc = "returned") =>
       /\ images = <<>> => stitched_image = NonePage
       /\ stitched_images = <<>> => stitched_image = NonePage
       /\ stitched_images # <<>> =>
             /\ stitched_image = stitched_images[1]
             /\ \A k \in 2..Len(stitched_images) :
                   PastedImages(stitched_images[k]) \cap PastedImages(stitched_image) = {}

C29_Witness ==
    /\ caller = "stitch_images"
    /\ wpc = "returned"
    /\ Len(stitched_images) = 2
    /\ stitched_image = stitched_images[1]
    /\ PastedImages(stitched_images[2]) = {2}


\* ------------------------------------------------------------- C27
\* C27: process_comic and unified_process_comic change
\* tracked_comics[comic_index]['last_known_chapter'] to the new chapter
\* only in the step that ends with True, and that step is reached only
\* when stitching gave at least one page and saving at least one path;
\* while the call runs, and after every visit that ended with False or
\* with an exception, tracked_comics is what it was at the call.
C27_UpdateOnlyOnTrue ==
    /\ ppc # "idle" => tracked_comics = at_entry
    /\ \A k \in 1..Len(visits) :
          LET v == visits[k] IN
          /\ v.outcome = "True" =>
                /\ v.pages >= 1
                /\ v.saved >= 1
                /\ v.chapter # NoChapter
                /\ v.after = [v.before EXCEPT
                                 ![v.comic_index].last_known_chapter = v.chapter]
                /\ v.after # v.before
          /\ v.outcome # "True" => v.after = v.before

\* one run in which a comic was updated after its pages were saved and
\* another comic ended with False because no page could be saved
C27_Witness ==
    /\ mpc = "returned"
    /\ \E k \in 1..Len(visits) :
          /\ visits[k].outcome = "True"
          /\ visits[k].after # visits[k].before
          /\ visits[k].saved >= 1
    /\ \E k \in 1..Len(visits) :
          /\ visits[k].outcome = "False"
          /\ visits[k].pages >= 1
          /\ visits[k].saved = 0
          /\ visits[k].after = visits[k].before

\* ------------------------------------------------------------- C30
\* the visits of the comics that were given to process_comic
ProcessedVisits == {k \in 1..Len(visits) : visits[k].outcome # "skipped"}

\* the run of the check loop is over
RunOver == mpc \in {"returned", "propagated"}

\* C30 (what holds in every state): an exception raised while a comic is
\* processed does not end the run; when the run over a non-empty list is
\* over, every comic was visited once and in order, exactly the comics of
\* an enabled (or unknown) site were given to process_comic, the list was
\* written once, after the last visit and not before; main_check_loop's
\* counts satisfy new <= total <= number of tracked comics.
C30_Counts ==
    /\ mpc = "propagated" => comic_i > Len(tracked_comics)
    /\ save_count = (IF RunOver /\ tracked_comics # <<>> THEN 1 ELSE 0)
    /\ \A k \in 1..Len(visits) : visits[k].index = k
    /\ RunOver /\ tracked_comics # <<>> =>
          /\ Len(visits) = Len(tracked_comics)
          /\ \A k \in 1..Len(visits) :
                (visits[k].outcome = "skipped") <=> SiteDisabled(tracked_comics[k])
    /\ new_chapters = Cardinality({k \in 1..Len(visits) : visits[k].outcome = "True"})
    /\ workflow = "main" =>
          /\ total_checked = Cardinality(ProcessedVisits)
                             + (IF ppc # "idle" THEN 1 ELSE 0)
          /\ new_chapters <= total_checked
          /\ total_checked <= Len(tracked_comics)

====
